---- MODULE Spec2Model ----
(***************************************************************************)
(* Conversation continuity of mu-mcp: the ConversationStorage store        *)
(* (storage.py) and the ChatHandler.chat turn (chat_handler.py).           *)
(*                                                                         *)
(* Python values are modelled as follows.                                  *)
(*   dict        a function whose DOMAIN is the set of keys present        *)
(*   list        a sequence                                                *)
(*   None        the string None for text fields, the empty name <<>>      *)
(*               for model names, the empty dict for an absent dict        *)
(*   model name  the sequence of its "/"-separated segments:               *)
(*               "gpt-5" is <<"gpt-5">>, "openai/gpt-5" <<"openai",        *)
(*               "gpt-5">>, "" and None are <<>>                           *)
(*   timestamp   datetime.utcnow().isoformat() is the integer clock now;   *)
(*               every step that reads the clock finds it one later        *)
(*   file        the JSON text json.dump writes: a sequence of             *)
(*               <<key, value>> members; <<>> is a truncated file          *)
(*                                                                         *)
(* A chat turn runs on the asyncio loop: it is atomic from its start up to *)
(* "await self._call_openrouter" and from the resumption to its return.    *)
(***************************************************************************)
EXTENDS Integers, Sequences, FiniteSets, TLC

VARIABLES
    disk,      \* storage_dir: conversation id -> file text, for the files that exist
    cache,     \* per ChatHandler: storage._cache, conversation id -> dict
    last,      \* per ChatHandler: (_last_conversation_id, _last_model_used)
    now,       \* the wall clock read by datetime.utcnow()
    pc,        \* per chat call in flight: "idle" or "awaiting" (suspended at the await)
    loc,       \* per chat call in flight: its arguments and the locals alive across the await
    done       \* the call the last step completed, if it completed one: its arguments and outcome

vars == <<disk, cache, last, now, pc, loc, done>>

-----------------------------------------------------------------------------
(* Bounds of the model *)

MaxTime == 4        \* chat reads the clock at the times 1..MaxTime
MaxSaveTime == 3    \* a direct caller of the store saves at the times 1..MaxSaveTime

Handlers == {"h1", "h2"}          \* ChatHandler objects alive in the process
TurnOrder == <<"t1", "t2">>       \* chat calls that can be in flight together
Turns == {TurnOrder[i] : i \in 1..Len(TurnOrder)}
ConvOrder == <<"c1", "c2">>       \* the values uuid.uuid4() can return
ConvIds == {ConvOrder[i] : i \in 1..Len(ConvOrder)}
Prompts == {"p1"}
Responses == {"r1"}

None == "None"
Titles == {None, "", "T1"}
ContinuationIds == {None, ""} \cup ConvIds
ModelInputs == {<<"gpt-5">>, <<"acme", "m1">>}

NoModel == <<>>
EmptyDict == [k \in {} |-> None]
Truncated == <<>>

\* Python truthiness of an Optional[str]
Truthy(s) == s \notin {None, ""}

\* dict.get(key) with the default None
Get(d, k) == IF k \in DOMAIN d THEN d[k] ELSE None

-----------------------------------------------------------------------------
(* models.py: the registry *)

OPENROUTER_MODELS ==
    { [key |-> "gpt-5", name |-> <<"openai", "gpt-5">>],
      [key |-> "sonnet", name |-> <<"anthropic", "claude-sonnet-4">>] }

\* str.lower() on the names the model uses
Lower(s) == IF s = "GPT-5" THEN "gpt-5" ELSE s

get_allowed_models == OPENROUTER_MODELS

resolve_model(name) ==
    IF Len(name) = 0 THEN NoModel
    ELSE IF Len(name) > 1 THEN name
    ELSE LET name_lower == Lower(name[1])
             models == get_allowed_models
         IN  IF \E m \in models : m.key = name_lower
             THEN (CHOOSE m \in models : m.key = name_lower).name
             ELSE IF \E m \in models : m.name[Len(m.name)] = name_lower
             THEN (CHOOSE m \in models : m.name[Len(m.name)] = name_lower).name
             ELSE NoModel

get_short_name(full_name) ==
    IF Len(full_name) = 0 THEN NoModel
    ELSE LET models == get_allowed_models
         IN  IF \E m \in models : m.name = full_name
             THEN << (CHOOSE m \in models : m.name = full_name).key >>
             ELSE NoModel

-----------------------------------------------------------------------------
(* prompts.py: the fixed texts *)

get_llm_system_prompt(model_name) == "SYSTEM_PROMPT"
get_request_wrapper == "+REQUEST_FROM_CLAUDE"
get_response_wrapper(model_name) == [trailer |-> "PEER_AI_RESPONSE", display_name |-> model_name]

-----------------------------------------------------------------------------
(* json.dump / json.load of the dicts the store handles *)

KeyOrder == << "id", "created", "updated", "messages", "title", "model_metadata",
               "role", "content", "metadata", "name",
               "timestamp", "target_model", "model", "model_used", "models_used" >>

RECURSIVE JsonDump(_)
JsonDumpValue(k, v) ==
    IF k = "messages" THEN [i \in 1..Len(v) |-> JsonDump(v[i])]
    ELSE IF k \in {"metadata", "model_metadata"} THEN JsonDump(v)
    ELSE v
JsonDump(d) ==
    LET keys == SelectSeq(KeyOrder, LAMBDA k : k \in DOMAIN d)
    IN  [i \in 1..Len(keys) |-> <<keys[i], JsonDumpValue(keys[i], d[keys[i]])>>]

\* json.load raises on a text that is no complete JSON document
Parsable(text) == text # Truncated

RECURSIVE JsonLoad(_)
JsonLoadValue(k, v) ==
    IF k = "messages" THEN [i \in 1..Len(v) |-> JsonLoad(v[i])]
    ELSE IF k \in {"metadata", "model_metadata"} THEN JsonLoad(v)
    ELSE v
JsonLoad(text) ==
    LET member(k) == text[CHOOSE i \in 1..Len(text) : text[i][1] = k]
    IN  [k \in {text[i][1] : i \in 1..Len(text)} |-> JsonLoadValue(k, member(k)[2])]

-----------------------------------------------------------------------------
(* storage.py: ConversationStorage *)

\* {**message, "metadata": {"timestamp": now, **metadata}}: a later key wins
add_metadata_to_message(message, metadata) ==
    [metadata |-> metadata @@ [timestamp |-> now]] @@ message

\* mutant: the stored messages are handed over as they are
get_messages_for_api_Unstripped(messages) == messages

get_messages_for_api(messages) ==
    [i \in 1..Len(messages) |->
        [role |-> Get(messages[i], "role"), content |-> Get(messages[i], "content")]]

\* mutant: the pointer's model is always read from the messages
LastFullName_FromMessages(messages, model_metadata) ==
    LET hits == { i \in 1..Len(messages) :
                    /\ Get(messages[i], "role") = "assistant"
                    /\ "metadata" \in DOMAIN messages[i]
                    /\ "model" \in DOMAIN messages[i].metadata }
    IN  IF hits = {} THEN NoModel
        ELSE messages[CHOOSE i \in hits : \A j \in hits : j <= i].metadata.model

\* the full name save_conversation takes the pointer's model from
LastFullName(messages, model_metadata) ==
    IF DOMAIN model_metadata # {} /\ "models_used" \in DOMAIN model_metadata
    THEN IF Len(model_metadata.models_used) > 0
         THEN model_metadata.models_used[Len(model_metadata.models_used)]
         ELSE NoModel
    ELSE LET hits == { i \in 1..Len(messages) :
                         /\ Get(messages[i], "role") = "assistant"
                         /\ "metadata" \in DOMAIN messages[i]
                         /\ "model" \in DOMAIN messages[i].metadata }
         IN  IF hits = {} THEN NoModel
             ELSE messages[CHOOSE i \in hits : \A j \in hits : j <= i].metadata.model

\* mutant: the existing title is not carried over
SaveTitle_ArgumentOnly(data, existing, title) ==
    IF Truthy(title) THEN data @@ [title |-> title] ELSE data

\* the title save_conversation writes: the argument, else the existing one
SaveTitle(data, existing, title) ==
    IF Truthy(title) THEN data @@ [title |-> title]
    ELSE IF "title" \in DOMAIN existing THEN data @@ [title |-> existing.title]
    ELSE data

\* mutant: created is set anew on every save
SaveCreated_Now(exists, existing) == now

\* mutant: a conversation saved to a new file is stamped with time 0
SaveCreated_Epoch(exists, existing) ==
    IF exists THEN Get(existing, "created") ELSE 0

\* the created time save_conversation writes
SaveCreated(exists, existing) ==
    IF exists THEN Get(existing, "created") ELSE now

\* mutant: the write that raised had put the whole document into the file
FailedWrite_Complete(conversation_id, conversation_data) ==
    (conversation_id :> JsonDump(conversation_data)) @@ disk

\* lines 80-81 when json.dump raises: open(file_path, "w") has truncated the
\* file and the document is not completely written
FailedWrite(conversation_id, conversation_data) ==
    (conversation_id :> Truncated) @@ disk

\* mutant: the save does not write through the cache
SaveCache_Unchanged(c, conversation_id, conversation_data) == c

\* mutant: the cached copy of a saved record has lost its id
SaveCache_NoId(c, conversation_id, conversation_data) ==
    (conversation_id :> [conversation_data EXCEPT !.id = ""]) @@ c

\* line 84: the write-through of the saved dict into _cache
SaveCache(c, conversation_id, conversation_data) ==
    (conversation_id :> conversation_data) @@ c

\* save_conversation on a store whose _cache is c and whose pointer is l; fault
\* is what the file system does to the write: "none", "open" (open(file_path,
\* "w") raises, file untouched) or "write" (json.dump raises after the file was
\* truncated). Yields the return value and the disk, cache and pointer it leaves.
\* mutant: a failed save drops the cache and the pointer
SaveFailed_Forgets(c, l) ==
    [ok |-> FALSE, disk |-> disk, cache |-> EmptyDict, last |-> [id |-> None, model |-> NoModel]]

\* lines 111-113: the except branch returns False. The statements that can
\* raise (52-56 reading the existing file, 80-81 writing) come before the
\* assignments to the cache and the pointer (84-106); the pointer's model is
\* computed from messages whose metadata are mappings and a models_used that
\* is a list, which does not raise
SaveFailed(c, l) == [ok |-> FALSE, disk |-> disk, cache |-> c, last |-> l]

save_conversation(c, l, conversation_id, messages, model_metadata, title, fault) ==
    LET exists == conversation_id \in DOMAIN disk
        unchanged == SaveFailed(c, l)
    IN  IF exists /\ ~Parsable(disk[conversation_id]) THEN unchanged
        ELSE
        LET existing == IF exists THEN JsonLoad(disk[conversation_id]) ELSE EmptyDict
            created == SaveCreated(exists, existing)
            base == [id |-> conversation_id, created |-> created,
                     updated |-> now, messages |-> messages]
            titled == SaveTitle(base, existing, title)
            conversation_data ==
                IF DOMAIN model_metadata # {}
                THEN titled @@ [model_metadata |-> model_metadata]
                ELSE titled
            last_full_name == LastFullName(messages, model_metadata)
            short_name == get_short_name(last_full_name)
        IN  IF fault = "open" THEN unchanged
            ELSE IF fault = "write"
            THEN [unchanged EXCEPT !.disk = FailedWrite(conversation_id, conversation_data)]
            ELSE [ok |-> TRUE,
                  disk |-> (conversation_id :> JsonDump(conversation_data)) @@ disk,
                  cache |-> SaveCache(c, conversation_id, conversation_data),
                  last |-> [id |-> conversation_id,
                            model |-> IF Len(last_full_name) > 0
                                      THEN IF Len(short_name) > 0 THEN short_name
                                           ELSE last_full_name
                                      ELSE NoModel]]

\* get_last_conversation_info on a store whose pointer is l
get_last_conversation_info(l) == <<l.id, l.model>>

\* what load_conversation reads from disk on a cache miss
ReadFile(conversation_id) == JsonLoad(disk[conversation_id])

\* mutant: an id with no cache entry and no readable file yields an empty new
\* conversation instead of None
load_conversation_OrNew(c, conversation_id) ==
    IF conversation_id \in DOMAIN c
    THEN [found |-> TRUE, data |-> c[conversation_id], cache |-> c]
    ELSE LET data == IF conversation_id \in DOMAIN disk /\ Parsable(disk[conversation_id])
                     THEN JsonLoad(disk[conversation_id])
                     ELSE [id |-> conversation_id, messages |-> << >>]
         IN  [found |-> TRUE, data |-> data, cache |-> (conversation_id :> data) @@ c]

\* mutant: a failed load leaves an empty entry in the cache
load_conversation_CachesMiss(c, conversation_id) ==
    IF conversation_id \in DOMAIN c
    THEN [found |-> TRUE, data |-> c[conversation_id], cache |-> c]
    ELSE IF conversation_id \in DOMAIN disk /\ Parsable(disk[conversation_id])
    THEN [found |-> TRUE, data |-> JsonLoad(disk[conversation_id]),
          cache |-> (conversation_id :> JsonLoad(disk[conversation_id])) @@ c]
    ELSE [found |-> FALSE, data |-> EmptyDict,
          cache |-> (conversation_id :> EmptyDict) @@ c]

\* mutant: the file is read on every load, the cache only written
load_conversation_ReadThrough(c, conversation_id) ==
    IF conversation_id \notin DOMAIN disk
    THEN [found |-> FALSE, data |-> EmptyDict, cache |-> c]
    ELSE IF ~Parsable(disk[conversation_id])
    THEN [found |-> FALSE, data |-> EmptyDict, cache |-> c]
    ELSE LET data == ReadFile(conversation_id)
         IN  [found |-> TRUE, data |-> data,
              cache |-> (conversation_id :> data) @@ c]

\* load_conversation on a store whose _cache is c: whether a dict is returned
\* (None otherwise), the dict, and the cache it leaves
load_conversation(c, conversation_id) ==
    IF conversation_id \in DOMAIN c
    THEN [found |-> TRUE, data |-> c[conversation_id], cache |-> c]
    ELSE IF conversation_id \notin DOMAIN disk
    THEN [found |-> FALSE, data |-> EmptyDict, cache |-> c]
    ELSE IF ~Parsable(disk[conversation_id])
    THEN [found |-> FALSE, data |-> EmptyDict, cache |-> c]
    ELSE LET data == ReadFile(conversation_id)
         IN  [found |-> TRUE, data |-> data,
              cache |-> (conversation_id :> data) @@ c]

\* lines 245-257: the full name a listing takes the summary's model from
SummaryFullName(data) ==
    IF "model_metadata" \in DOMAIN data /\ "models_used" \in DOMAIN data.model_metadata
    THEN IF Len(data.model_metadata.models_used) > 0
         THEN data.model_metadata.models_used[Len(data.model_metadata.models_used)]
         ELSE NoModel
    ELSE LET messages == IF "messages" \in DOMAIN data THEN data.messages ELSE << >>
             hits == { i \in 1..Len(messages) :
                         /\ Get(messages[i], "role") = "assistant"
                         /\ "metadata" \in DOMAIN messages[i]
                         /\ "model" \in DOMAIN messages[i].metadata }
         IN  IF hits = {} THEN NoModel
             ELSE messages[CHOOSE i \in hits : \A j \in hits : j <= i].metadata.model

\* mutant: the title is reported as it is stored
SummaryTitle_Raw(title) == title

\* lines 268-271: the placeholder of a conversation without a title
SummaryTitle(title) == IF Truthy(title) THEN title ELSE "[Untitled conversation]"

\* lines 237-273: the summary of one parsed conversation file
Summary(data) ==
    LET model_full_name == SummaryFullName(data)
        short_name == get_short_name(model_full_name)
    IN  [id |-> Get(data, "id"),
         title |-> SummaryTitle(Get(data, "title")),
         created |-> Get(data, "created"),
         updated |-> Get(data, "updated"),
         model_used |-> IF Len(model_full_name) > 0
                        THEN IF Len(short_name) > 0 THEN short_name ELSE model_full_name
                        ELSE NoModel]

\* list.sort(key=updated, reverse=True): descending and stable
RECURSIVE SortByUpdated(_)
SortByUpdated(conversations) ==
    IF Len(conversations) = 0 THEN << >>
    ELSE LET n == Len(conversations)
             x == conversations[n]
             sorted == SortByUpdated(SubSeq(conversations, 1, n - 1))
             before == SelectSeq(sorted, LAMBDA y : y.updated >= x.updated)
             after == SelectSeq(sorted, LAMBDA y : y.updated < x.updated)
         IN  before \o <<x>> \o after

\* line 281: the sort key x.get("updated", "") is None for the summary of a
\* record without updated (the key is in the summary, with value None);
\* comparing None with another key raises TypeError as soon as the list has
\* two entries, and lines 285-287 turn the exception into the result []
SortRaises(parsed) ==
    /\ Len(parsed) >= 2
    /\ \E i \in 1..Len(parsed) : "updated" \notin DOMAIN JsonLoad(disk[parsed[i]])

\* lines 228-229: the first limit files of the list sorted by mtime
RecentFiles(files_by_mtime, limit) ==
    SubSeq(files_by_mtime, 1, IF limit < Len(files_by_mtime) THEN limit
                              ELSE Len(files_by_mtime))

\* mutant: the listing keeps every record it parsed in the cache
CacheAfterListing_Populates(c, limit, files_by_mtime) ==
    LET recent_files == RecentFiles(files_by_mtime, limit)
        parsed == { recent_files[i] : i \in { j \in 1..Len(recent_files) :
                                                Parsable(disk[recent_files[j]]) } }
    IN  [id \in parsed |-> JsonLoad(disk[id])] @@ c

\* lines 214-287: list_recent_conversations opens files for reading only and
\* assigns neither self._cache nor the pointer; c is the cache it leaves
CacheAfterListing(c, limit, files_by_mtime) == c

\* list_recent_conversations(limit), where files_by_mtime is the list of the
\* directory's *.json files as sorted by st_mtime, newest first (files of equal
\* mtime in the order glob yielded them)
list_recent_conversations(limit, files_by_mtime) ==
    LET recent_files == RecentFiles(files_by_mtime, limit)
        parsed == SelectSeq(recent_files, LAMBDA id : Parsable(disk[id]))
        conversations == [i \in 1..Len(parsed) |-> Summary(JsonLoad(disk[parsed[i]]))]
    IN  IF SortRaises(parsed) THEN << >> ELSE SortByUpdated(conversations)

-----------------------------------------------------------------------------
(* Initial state *)

NoLast == [id |-> None, model |-> NoModel]
NoLocals == EmptyDict
NoCall == [op |-> "none"]

\* a conversation an earlier run of the server left in storage_dir
OldConversation ==
    [id |-> "c1", created |-> 0, updated |-> 0, title |-> "T0",
     messages |->
        << [role |-> "user", content |-> "p0" \o get_request_wrapper,
            metadata |-> [timestamp |-> 0, target_model |-> <<"openai", "gpt-5">>]],
           [role |-> "assistant", content |-> "r0",
            metadata |-> [timestamp |-> 0, model |-> <<"openai", "gpt-5">>,
                          model_used |-> <<"openai", "gpt-5">>]] >>,
     model_metadata |-> [models_used |-> << <<"openai", "gpt-5">> >>]]

\* storage_dir when the process starts: empty, or holding an earlier conversation
InitDisks == { EmptyDict, "c1" :> JsonDump(OldConversation) }

Init ==
    /\ disk \in InitDisks
    /\ cache = [h \in Handlers |-> EmptyDict]
    /\ last = [h \in Handlers |-> NoLast]
    /\ now = 1
    /\ pc = [t \in Turns |-> "idle"]
    /\ loc = [t \in Turns |-> NoLocals]
    /\ done = NoCall

-----------------------------------------------------------------------------
(* chat_handler.py: ChatHandler.chat *)

Awaiting(t) == pc[t] = "awaiting"

\* mutant: a call waits for every running call to return
FreeSlot_Serialized(t) ==
    /\ \A u \in Turns : ~Awaiting(u)
    /\ t = TurnOrder[1]

\* the slot a new call runs in: the first one free
FreeSlot(t) ==
    /\ ~Awaiting(t)
    /\ \A i, j \in 1..Len(TurnOrder) :
          (TurnOrder[j] = t /\ i < j) => Awaiting(TurnOrder[i])

\* uuid.uuid4() returns an id no file, cache or running turn holds
FreshIds ==
    ConvIds \ ( DOMAIN disk
                \cup UNION { DOMAIN cache[h] : h \in Handlers }
                \cup { loc[t].continuation_id : t \in { u \in Turns : Awaiting(u) } } )

\* mutant: the minted id is not fresh
uuid4_Reused == ConvOrder[1]

\* str(uuid.uuid4()): ids are only ever compared for equality, so the first
\* fresh one stands for any of them
uuid4 == ConvOrder[CHOOSE i \in 1..Len(ConvOrder) :
                      /\ ConvOrder[i] \in FreshIds
                      /\ \A j \in 1..(i - 1) : ConvOrder[j] \notin FreshIds]

ErrorResult(text) == [error |-> text, continuation_id |-> None, model_used |-> NoModel]

\* mutant: the caller's string is used without asking the registry
ResolvedModel_AsGiven(model) == model

\* lines 69-72: the registry's full name, else the caller's string as it is
ResolvedModel(model) ==
    IF Len(resolve_model(model)) = 0 THEN model ELSE resolve_model(model)

\* mutant: the check of line 75 is missing
Validate_BothAccepted(title, continuation_id) ==
    IF ~Truthy(title) /\ ~Truthy(continuation_id) THEN "neither" ELSE "ok"

\* mutant: the check of line 82 is missing
Validate_NeitherAccepted(title, continuation_id) ==
    IF Truthy(title) /\ Truthy(continuation_id) THEN "both" ELSE "ok"

\* lines 75, 82: the request validation; "ok" lets the turn start
Validate(title, continuation_id) ==
    IF Truthy(title) /\ Truthy(continuation_id) THEN "both"
    ELSE IF ~Truthy(title) /\ ~Truthy(continuation_id) THEN "neither"
    ELSE "ok"

\* _build_user_content without files or images: the wrapped prompt itself
BuildUserContent(prompt) == prompt \o get_request_wrapper

\* mutant: the system prompt is appended instead of inserted at index 0
ApiMessages_SystemLast(messages_with_metadata, resolved_model) ==
    Append(get_messages_for_api(messages_with_metadata),
           [role |-> "system", content |-> get_llm_system_prompt(resolved_model)])

\* lines 117-121: the list handed to _call_openrouter
ApiMessages(messages_with_metadata, resolved_model) ==
    << [role |-> "system", content |-> get_llm_system_prompt(resolved_model)] >>
        \o get_messages_for_api(messages_with_metadata)

\* mutant: the turn merges its user message into the history the file holds
\* when the external call returns
Messages_Merged(t) ==
    LET own == IF loc[t].aliased
               THEN cache[loc[t].h][loc[t].continuation_id].messages
               ELSE loc[t].messages_with_metadata
        id == loc[t].continuation_id
    IN  IF id \in DOMAIN disk /\ Parsable(disk[id])
        THEN Append(JsonLoad(disk[id]).messages, own[Len(own)])
        ELSE own

\* The list object bound to messages_with_metadata in turn t. On a continuation
\* it is the very list held by the cached dict (load_conversation returns the
\* cached dict and .get("messages") returns its list, not a copy); on a new
\* conversation it is a list of the turn's own.
Messages(t) ==
    IF loc[t].aliased THEN cache[loc[t].h][loc[t].continuation_id].messages
    ELSE loc[t].messages_with_metadata

\* disk and the store of handler h, as a call on h finds or leaves them
Snapshot(h) == [disk |-> disk, cache |-> cache[h], last |-> last[h]]

Request(h, prompt, model, title, continuation_id) ==
    [h |-> h, prompt |-> prompt, model |-> model,
     title |-> title, continuation_id |-> continuation_id]

\* A completed chat call: its arguments, how it ended ("error": a structured
\* error result, "success": the normal result, "raised": the exception of the
\* external call), the dict returned, the list handed to _call_openrouter (<<>>
\* when it was not called), whether save_conversation returned True, and disk
\* and store as the call found them (pre) and left them (post).
ChatDone(outcome, request, res, sent, saved, before, after) ==
    [op |-> "chat", outcome |-> outcome, req |-> request, result |-> res,
     sent |-> sent, saved |-> saved, pre |-> before, post |-> after]

\* chat, from the call to its first return or to the await of the external call
Chat(t, h, prompt, model, title, continuation_id) ==
    /\ FreeSlot(t)
    /\ LET request == Request(h, prompt, model, title, continuation_id)
           resolved_model == ResolvedModel(model)
           verdict == Validate(title, continuation_id)
           loaded == load_conversation(cache[h], continuation_id)
           user_message ==
               add_metadata_to_message(
                   [role |-> "user", content |-> BuildUserContent(prompt)],
                   [target_model |-> resolved_model])
           aliased == Truthy(continuation_id) /\ "messages" \in DOMAIN loaded.data
           prior == IF aliased THEN loaded.data.messages ELSE << >>
           messages_with_metadata == Append(prior, user_message)
           id == IF Truthy(continuation_id) THEN continuation_id ELSE uuid4
       IN
       IF verdict # "ok"
       THEN /\ done' = ChatDone("error", request, ErrorResult(verdict), << >>, FALSE,
                                 Snapshot(h), Snapshot(h))
            /\ UNCHANGED <<cache, pc, loc, now>>
       ELSE IF Truthy(continuation_id) /\ (~loaded.found \/ DOMAIN loaded.data = {})
       THEN /\ done' = ChatDone("error", request, ErrorResult("not_found"), << >>, FALSE,
                                 Snapshot(h), [Snapshot(h) EXCEPT !.cache = loaded.cache])
            /\ cache' = [cache EXCEPT ![h] = loaded.cache]
            /\ UNCHANGED <<pc, loc, now>>
       ELSE /\ Truthy(continuation_id) \/ FreshIds # {}
            /\ now <= MaxTime
            /\ now' = now + 1
            /\ pc' = [pc EXCEPT ![t] = "awaiting"]
            /\ loc' = [loc EXCEPT ![t] =
                         [h |-> h, req |-> request, pre |-> Snapshot(h),
                          continuation_id |-> id, title |-> title,
                          resolved_model |-> resolved_model,
                          aliased |-> aliased,
                          messages_with_metadata |->
                              IF aliased THEN << >> ELSE messages_with_metadata,
                          api_messages |->
                              ApiMessages(messages_with_metadata, resolved_model)]]
            /\ cache' = [cache EXCEPT ![h] =
                           IF aliased
                           THEN [loaded.cache EXCEPT
                                   ![id].messages = messages_with_metadata]
                           ELSE loaded.cache]
            /\ done' = NoCall
    /\ UNCHANGED <<disk, last>>

\* chat, from the return of _call_openrouter with response_text to its own return
ChatReturn(t, response_text, fault) ==
    /\ Awaiting(t)
    /\ now <= MaxTime
    /\ now' = now + 1
    /\ LET h == loc[t].h
           id == loc[t].continuation_id
           resolved_model == loc[t].resolved_model
           assistant_message ==
               add_metadata_to_message(
                   [role |-> "assistant", content |-> response_text],
                   [model |-> resolved_model, model_used |-> resolved_model])
           messages_with_metadata == Append(Messages(t), assistant_message)
           appended == IF loc[t].aliased
                       THEN [cache[h] EXCEPT ![id].messages = messages_with_metadata]
                       ELSE cache[h]
           saved == save_conversation(appended, last[h], id, messages_with_metadata,
                                      [models_used |-> <<resolved_model>>],
                                      loc[t].title, fault)
           short_name == get_short_name(resolved_model)
           display_name == IF Len(short_name) > 0 THEN short_name ELSE resolved_model
       IN
       /\ disk' = saved.disk
       /\ cache' = [cache EXCEPT ![h] = saved.cache]
       /\ last' = [last EXCEPT ![h] = saved.last]
       /\ done' = ChatDone("success", loc[t].req,
                            [content |-> <<response_text, get_response_wrapper(display_name)>>,
                             continuation_id |-> id,
                             model_used |-> display_name],
                            loc[t].api_messages, saved.ok, loc[t].pre,
                            [disk |-> saved.disk, cache |-> saved.cache, last |-> saved.last])
    /\ pc' = [pc EXCEPT ![t] = "idle"]
    /\ loc' = [loc EXCEPT ![t] = NoLocals]

\* _call_openrouter raises (status other than 200, transport error): chat
\* propagates the exception from the await
ChatRaise(t) ==
    /\ Awaiting(t)
    /\ done' = ChatDone("raised", loc[t].req, EmptyDict, loc[t].api_messages, FALSE,
                         loc[t].pre, Snapshot(loc[t].h))
    /\ pc' = [pc EXCEPT ![t] = "idle"]
    /\ loc' = [loc EXCEPT ![t] = NoLocals]
    /\ UNCHANGED <<disk, cache, last, now>>

\* server.py call_tool line 285: a new ChatHandler, with a new ConversationStorage
NewHandler(h) ==
    /\ \A t \in Turns : Awaiting(t) => loc[t].h # h
    /\ cache[h] # EmptyDict \/ last[h] # NoLast
    /\ cache' = [cache EXCEPT ![h] = EmptyDict]
    /\ last' = [last EXCEPT ![h] = NoLast]
    /\ done' = NoCall
    /\ UNCHANGED <<disk, now, pc, loc>>

Faults == {"none", "open", "write"}

\* chat calls served one after the other, by the handler of the call before
\* or by a new one
Next ==
    \/ \E prompt \in Prompts, model \in ModelInputs, title \in Titles,
          continuation_id \in ContinuationIds :
          Chat("t1", "h1", prompt, model, title, continuation_id)
    \/ \E response_text \in Responses, fault \in Faults :
          ChatReturn("t1", response_text, fault)
    \/ ChatRaise("t1")
    \/ NewHandler("h1")

Spec == Init /\ [][Next]_vars

-----------------------------------------------------------------------------
(* server.py: call_tool *)

\* the ChatHandler that serves the call running in slot t
HandlerOf(t) == IF t = TurnOrder[1] THEN "h1" ELSE "h2"

\* lines 285-286: handler = ChatHandler(); await handler.chat(**arguments).
\* The handler of the call is the one NewHandler has just constructed.
CallTool(t, prompt, model, title, continuation_id) ==
    /\ cache[HandlerOf(t)] = EmptyDict
    /\ last[HandlerOf(t)] = NoLast
    /\ Chat(t, HandlerOf(t), prompt, model, title, continuation_id)

\* the model names the host's callers ask for
ServerModels == {<<"gpt-5">>}

\* the host: chat requests served on one event loop, a call being started
\* while another is suspended at its external call
ServerNext ==
    \/ \E t \in Turns, prompt \in Prompts, model \in ServerModels, title \in Titles,
          continuation_id \in ContinuationIds :
          CallTool(t, prompt, model, title, continuation_id)
    \/ \E t \in Turns, response_text \in Responses, fault \in Faults :
          ChatReturn(t, response_text, fault)
    \/ \E t \in Turns : ChatRaise(t)
    \/ \E h \in Handlers : NewHandler(h)

ServerSpec == Init /\ [][ServerNext]_vars

-----------------------------------------------------------------------------
(* Properties of chat *)

\* the dict stored in the file of conversation id on disk d
FileRecord(d, id) == JsonLoad(d[id])

Readable(d, id) == id \in DOMAIN d /\ Parsable(d[id])

\* the title of a dict as a set: empty when the dict has no title key
TitleField(data) == (DOMAIN data \cap {"title"}) \X {Get(data, "title")}

TitleOf(d, id) == TitleField(FileRecord(d, id))

\* the request carries exactly one of title / continuation_id
ExactlyOne(r) == Truthy(r.title) # Truthy(r.continuation_id)

\* the store snapshot s can produce the conversation: from its cache or from a
\* file that parses
Loadable(s, id) == id \in DOMAIN s.cache \/ Readable(s.disk, id)

CompletePairs(messages) ==
    /\ Len(messages) % 2 = 0
    /\ \A i \in 1..Len(messages) :
          Get(messages[i], "role") = IF i % 2 = 1 THEN "user" ELSE "assistant"

OnlyRoleAndContent(messages) ==
    \A i \in 1..Len(messages) : DOMAIN messages[i] = {"role", "content"}

ChatEnded(outcome) == done.op = "chat" /\ done.outcome = outcome

\* C1: a chat call whose external call raised leaves the conversation's file,
\* the store's cache (message lists included) and the last-conversation pointer
\* exactly as the call found them.
C1_FailedCallMutatesNothing ==
    ChatEnded("raised") => done.post = done.pre

\* C2: every persisted conversation file holds its messages as complete
\* (user, assistant) pairs, whatever calls succeeded or failed before.
C2_PersistedPairsComplete ==
    \A id \in DOMAIN disk :
        Parsable(disk[id]) => CompletePairs(FileRecord(disk, id).messages)

\* C3: chat runs the turn only for a request with exactly one of title /
\* continuation_id; a request with both or with neither gets a returned error
\* result of one shape: keys error, continuation_id, model_used, the last two None.
C3_ExactlyOneAccepted ==
    done.op = "chat" =>
        IF ExactlyOne(done.req)
        THEN done.result \notin {ErrorResult("both"), ErrorResult("neither")}
        ELSE /\ done.outcome = "error"
             /\ DOMAIN done.result = {"error", "continuation_id", "model_used"}
             /\ done.result.error =
                   IF Truthy(done.req.title) THEN "both" ELSE "neither"
             /\ done.result.continuation_id = None
             /\ done.result.model_used = NoModel

C3_Witness ==
    /\ ChatEnded("error")
    /\ done.req.title = "T1"
    /\ done.req.continuation_id \in DOMAIN disk
    /\ done.result = ErrorResult("both")

\* C4: a request rejected by validation never starts a turn: no call is ever
\* suspended at the external call for such a request, nothing was handed to the
\* external call, and disk, cache and pointer are as the call found them.
C4_RejectedNeverStarts ==
    /\ \A t \in Turns : Awaiting(t) => ExactlyOne(loc[t].req)
    /\ (done.op = "chat" /\ ~ExactlyOne(done.req)) =>
          /\ done.sent = << >>
          /\ done.post = done.pre

C4_Witness ==
    /\ ChatEnded("error")
    /\ ~Truthy(done.req.title)
    /\ ~Truthy(done.req.continuation_id)
    /\ DOMAIN done.pre.cache # {}
    /\ done.pre.last # NoLast

\* C5: a continuation_id whose conversation cannot be loaded is a hard fail: the
\* call returns the structured error, hands nothing to the external call and
\* creates no file, and no turn ever runs under a continuation_id that could not
\* be loaded.
C5_NotFoundIsHardFail ==
    /\ \A t \in Turns :
          (Awaiting(t) /\ Truthy(loc[t].req.continuation_id)) =>
              Loadable(loc[t].pre, loc[t].req.continuation_id)
    /\ ( /\ done.op = "chat"
         /\ ExactlyOne(done.req)
         /\ Truthy(done.req.continuation_id)
         /\ ~Loadable(done.pre, done.req.continuation_id) ) =>
          /\ done.outcome = "error"
          /\ done.result = ErrorResult("not_found")
          /\ done.sent = << >>
          /\ done.post.disk = done.pre.disk

C5_Witness ==
    /\ ChatEnded("error")
    /\ done.result = ErrorResult("not_found")
    /\ done.req.continuation_id \notin DOMAIN disk
    /\ DOMAIN disk # {}

\* C6: every message handed to the external call has exactly the keys role and
\* content, on first turns and on continuations.
C6_OutboundOnlyRoleContent ==
    /\ \A t \in Turns : Awaiting(t) => OnlyRoleAndContent(loc[t].api_messages)
    /\ done.op = "chat" => OnlyRoleAndContent(done.sent)

C6_Witness ==
    \E t \in Turns :
        /\ Awaiting(t)
        /\ Truthy(loc[t].req.continuation_id)
        /\ Len(loc[t].api_messages) >= 4
        /\ \E i \in 1..Len(Messages(t)) : "metadata" \in DOMAIN Messages(t)[i]

\* C7: a successful continuation turn appends exactly two messages, the user
\* message then the assistant message, to the persisted history and changes
\* none of the earlier ones.
C7_ContinuationAppendsTwo ==
    ( /\ ChatEnded("success")
      /\ done.saved
      /\ Truthy(done.req.continuation_id)
      /\ Readable(done.pre.disk, done.req.continuation_id) ) =>
        LET before == FileRecord(done.pre.disk, done.req.continuation_id).messages
            after == FileRecord(done.post.disk, done.req.continuation_id).messages
        IN  /\ Len(after) = Len(before) + 2
            /\ SubSeq(after, 1, Len(before)) = before
            /\ after[Len(after) - 1].role = "user"
            /\ after[Len(after)].role = "assistant"

\* C8: no chat call changes the id or the title of a conversation that exists:
\* a continuation preserves the title verbatim, and the creating call writes the
\* title it was given under the id it returns.
C8_TitleAndIdStable ==
    done.op = "chat" =>
        /\ \A id \in DOMAIN done.pre.disk :
              (Readable(done.pre.disk, id) /\ Readable(done.post.disk, id)) =>
                  /\ DOMAIN FileRecord(done.post.disk, id) \cap {"title"}
                        = DOMAIN FileRecord(done.pre.disk, id) \cap {"title"}
                  /\ Get(FileRecord(done.post.disk, id), "title")
                        = Get(FileRecord(done.pre.disk, id), "title")
                  /\ FileRecord(done.post.disk, id).id = FileRecord(done.pre.disk, id).id
        /\ (done.outcome = "success" /\ done.saved /\ Truthy(done.req.title)) =>
              /\ done.result.continuation_id \notin DOMAIN done.pre.disk
              /\ FileRecord(done.post.disk, done.result.continuation_id).title
                    = done.req.title
              /\ FileRecord(done.post.disk, done.result.continuation_id).id
                    = done.result.continuation_id

C8_Witness ==
    /\ ChatEnded("success")
    /\ done.saved
    /\ Truthy(done.req.continuation_id)
    /\ Readable(disk, done.req.continuation_id)
    /\ FileRecord(disk, done.req.continuation_id).title = "T1"
    /\ Len(FileRecord(disk, done.req.continuation_id).messages) >= 4

\* C11: a chat with a title and no continuation_id mints a fresh id and stores
\* nothing under it before the turn succeeds: while the external call is pending
\* the id has no file and no cache entry, a raised call leaves disk, cache and
\* pointer as they were, and a turn that succeeds (its save included) returns
\* the new id and leaves a file of that id holding the given title and exactly
\* two messages, user then assistant.
C11_NewConversationStoredOnSuccess ==
    /\ \A t \in Turns :
          (Awaiting(t) /\ Truthy(loc[t].req.title)) =>
              /\ loc[t].continuation_id \notin DOMAIN disk
              /\ loc[t].continuation_id \notin DOMAIN cache[loc[t].h]
    /\ (ChatEnded("raised") /\ Truthy(done.req.title)) => done.post = done.pre
    /\ (ChatEnded("success") /\ Truthy(done.req.title)) =>
          LET id == done.result.continuation_id
          IN  /\ id \in ConvIds
              /\ id \notin DOMAIN done.pre.disk
              /\ id \notin DOMAIN done.pre.cache
              /\ done.saved =>
                    /\ Readable(done.post.disk, id)
                    /\ TitleOf(done.post.disk, id) = {<<"title", done.req.title>>}
                    /\ Len(FileRecord(done.post.disk, id).messages) = 2
                    /\ CompletePairs(FileRecord(done.post.disk, id).messages)

C11_Witness ==
    /\ ChatEnded("success")
    /\ done.saved
    /\ done.req.title = "T1"
    /\ DOMAIN done.pre.disk # {}
    /\ Len(FileRecord(disk, done.result.continuation_id).messages) = 2

\* C15: when the external call succeeds and save_conversation fails, chat
\* returns the normal result (content, continuation_id, model_used) without
\* raising, and the turn's two messages are not on disk: the conversation's
\* file is missing, unreadable, or the text it was before the turn.
C15_SaveFailureStillReturns ==
    (ChatEnded("success") /\ ~done.saved) =>
        LET id == done.result.continuation_id
        IN  /\ DOMAIN done.result = {"content", "continuation_id", "model_used"}
            /\ done.result.content[1] \in Responses
            /\ id \in ConvIds
            /\ Truthy(done.req.continuation_id) => id = done.req.continuation_id
            /\ Len(done.result.model_used) > 0
            /\ Readable(done.post.disk, id) =>
                  /\ id \in DOMAIN done.pre.disk
                  /\ done.post.disk[id] = done.pre.disk[id]

C15_Witness ==
    /\ ChatEnded("success")
    /\ ~done.saved
    /\ Truthy(done.req.continuation_id)
    /\ Readable(done.pre.disk, done.req.continuation_id)
    /\ ~Readable(disk, done.req.continuation_id)

\* the alias the registry has for a full identifier, else the identifier itself
AliasOrFull(full_name) ==
    IF full_name = <<"openai", "gpt-5">> THEN <<"gpt-5">>
    ELSE IF full_name = <<"anthropic", "claude-sonnet-4">> THEN <<"sonnet">>
    ELSE full_name

\* the full identifier the registry has for a caller's model string, else the
\* string itself
FullOrVerbatim(model) ==
    IF model \in {<<"gpt-5">>, <<"openai", "gpt-5">>} THEN <<"openai", "gpt-5">>
    ELSE IF model \in {<<"sonnet">>, <<"claude-sonnet-4">>}
    THEN <<"anthropic", "claude-sonnet-4">>
    ELSE model

\* C19: the model identifier persisted with a turn (target_model of the user
\* message, model and model_used of the assistant message, model_metadata) is
\* the resolved full identifier, or the caller's string verbatim when the
\* registry does not resolve it; the alias appears only in what is returned
\* (chat's model_used, the pointer, a listing's summary), where it is the alias
\* when there is one and the full identifier otherwise.
C19_FullNamePersistedAliasReturned ==
    ChatEnded("success") =>
        LET full == FullOrVerbatim(done.req.model)
            id == done.result.continuation_id
        IN  /\ done.result.model_used = AliasOrFull(full)
            /\ done.result.content[2].display_name = AliasOrFull(full)
            /\ done.saved =>
                  LET file == FileRecord(done.post.disk, id)
                      n == Len(file.messages)
                  IN  /\ file.messages[n - 1].metadata.target_model = full
                      /\ file.messages[n].metadata.model = full
                      /\ file.messages[n].metadata.model_used = full
                      /\ file.model_metadata.models_used[
                             Len(file.model_metadata.models_used)] = full
                      /\ get_last_conversation_info(done.post.last)
                            = <<id, AliasOrFull(full)>>
                      /\ Summary(file).model_used = AliasOrFull(full)

C19_Witness ==
    /\ ChatEnded("success")
    /\ done.saved
    /\ done.req.model = <<"gpt-5">>
    /\ done.result.model_used = <<"gpt-5">>
    /\ Truthy(done.req.continuation_id)
    /\ LET file == FileRecord(disk, done.req.continuation_id)
       IN  /\ file.messages[Len(file.messages)].metadata.model = <<"openai", "gpt-5">>
           /\ \E i \in 1..Len(file.messages) :
                 /\ file.messages[i].role = "assistant"
                 /\ file.messages[i].metadata.model = <<"acme", "m1">>

\* C20: after successful turns on one conversation that used the models
\* m1, ..., mn in that order, the persisted model_metadata holds the sequence
\* m1, ..., mn: each successful continuation extends the persisted sequence by
\* the turn's model.
C20_ModelsUsedAccumulate ==
    ( /\ ChatEnded("success")
      /\ done.saved
      /\ Truthy(done.req.continuation_id)
      /\ Readable(done.pre.disk, done.req.continuation_id) ) =>
        LET before == FileRecord(done.pre.disk, done.req.continuation_id)
            after == FileRecord(done.post.disk, done.req.continuation_id)
        IN  after.model_metadata.models_used
                = Append(before.model_metadata.models_used,
                         FullOrVerbatim(done.req.model))

\* C21: write-through consistency: whenever no chat turn is in flight, each
\* cache entry of a store equals the record persisted on disk for the same id
\* (title, created, updated, messages), after any sequence of successful turns,
\* failed external calls and failed saves.
C21_CacheEqualsDisk ==
    (\A t \in Turns : ~Awaiting(t)) =>
        \A h \in Handlers : \A id \in DOMAIN cache[h] :
            /\ Readable(disk, id)
            /\ TitleField(cache[h][id]) = TitleOf(disk, id)
            /\ Get(cache[h][id], "created") = Get(FileRecord(disk, id), "created")
            /\ Get(cache[h][id], "updated") = Get(FileRecord(disk, id), "updated")
            /\ Get(cache[h][id], "messages") = Get(FileRecord(disk, id), "messages")

\* the history a call finds stored for a continuation id: the cached record's
\* messages, else the file's; nothing for a new conversation
PriorStored(request, pre) ==
    IF ~Truthy(request.continuation_id) THEN << >>
    ELSE IF request.continuation_id \in DOMAIN pre.cache
    THEN pre.cache[request.continuation_id].messages
    ELSE FileRecord(pre.disk, request.continuation_id).messages

\* the payload C22 prescribes for a request and the store it ran on
PrescribedPayload(request, pre) ==
    LET prior == PriorStored(request, pre)
    IN  << [role |-> "system", content |-> "SYSTEM_PROMPT"] >>
        \o [i \in 1..Len(prior) |->
               [role |-> prior[i].role, content |-> prior[i].content]]
        \o << [role |-> "user", content |-> request.prompt \o "+REQUEST_FROM_CLAUDE"] >>

\* C22: the list handed to the external call is one system message at index 0,
\* then the stored prior messages stripped of metadata in stored order, then
\* the new user message; the system message never enters the stored history:
\* no file and no cache entry holds a system message.
C22_PayloadIsSystemHistoryUser ==
    /\ \A t \in Turns :
          Awaiting(t) => loc[t].api_messages = PrescribedPayload(loc[t].req, loc[t].pre)
    /\ (done.op = "chat" /\ done.outcome # "error") =>
          done.sent = PrescribedPayload(done.req, done.pre)
    /\ \A id \in DOMAIN disk :
          Readable(disk, id) =>
              \A i \in 1..Len(FileRecord(disk, id).messages) :
                  FileRecord(disk, id).messages[i].role # "system"
    /\ \A h \in Handlers : \A id \in DOMAIN cache[h] :
          \A i \in 1..Len(cache[h][id].messages) :
              cache[h][id].messages[i].role # "system"

C22_Witness ==
    /\ ChatEnded("success")
    /\ done.saved
    /\ Truthy(done.req.continuation_id)
    /\ Len(done.sent) = 4
    /\ done.sent[1].role = "system"
    /\ done.sent[2].content = "p0+REQUEST_FROM_CLAUDE"
    /\ done.sent[4].content = "p1+REQUEST_FROM_CLAUDE"
    /\ Len(FileRecord(disk, done.req.continuation_id).messages) = 4

\* C27: the payload of a turn holds, between the system message and the turn's
\* own user message, only messages of turns that completed before it, that is
\* complete (user, assistant) pairs: never the user message of a turn whose
\* external call failed.
C27_PayloadOnlyCompletedTurns ==
    \A t \in Turns :
        Awaiting(t) =>
            LET sent == loc[t].api_messages
            IN  /\ sent[1].role = "system"
                /\ sent[Len(sent)].role = "user"
                /\ CompletePairs(SubSeq(sent, 2, Len(sent) - 1))

\* the file of id holds a record that a successful save of a turn wrote (the
\* conversations of earlier runs carry OldConversation.updated)
SavedByTurn(id) ==
    /\ Readable(disk, id)
    /\ FileRecord(disk, id).updated > OldConversation.updated

\* a chat call continuing id (no title) has returned conversation-not-found
NotFound(id) ==
    /\ ChatEnded("error")
    /\ done.req.continuation_id = id
    /\ ~Truthy(done.req.title)
    /\ done.result = ErrorResult("not_found")

\* C28: resumability: once a turn has returned a success result and its save
\* succeeded, the conversation stays resumable: no later step leaves its file
\* unparsable (a new store with a cold cache finds the conversation by
\* parsing that file), and no chat with its id returns the
\* conversation-not-found error.
C28_SavedConversationResumable ==
    [][\A id \in ConvIds :
          SavedByTurn(id) => (Readable(disk', id) /\ ~NotFound(id)')]_vars

\* C29: every conversation file X.json that parses holds a record whose id is
\* X, and every cache entry under key X holds a record whose id is X.
C29_RecordIdIsItsName ==
    /\ \A id \in DOMAIN disk :
          Readable(disk, id) => Get(FileRecord(disk, id), "id") = id
    /\ \A h \in Handlers : \A id \in DOMAIN cache[h] :
          Get(cache[h][id], "id") = id

\* a new conversation has been saved under a generated id beside an older one
C29_Witness ==
    /\ ChatEnded("success")
    /\ done.saved
    /\ ~Truthy(done.req.continuation_id)
    /\ done.result.continuation_id \in DOMAIN cache[done.req.h]
    /\ \E other \in DOMAIN disk :
          /\ other # done.result.continuation_id
          /\ Readable(disk, other)
    /\ FileRecord(disk, done.result.continuation_id).id = done.result.continuation_id

-----------------------------------------------------------------------------
(* Properties of the host *)

\* C13: chat turns on one continuation id are not serialized: a turn that
\* succeeds persists exactly the history it loaded when it started followed by
\* its own two messages, whatever another turn saved in the meantime, so the
\* pair another turn appended after that load is lost.
C13_LastWriterWins ==
    ( /\ ChatEnded("success")
      /\ done.saved
      /\ Truthy(done.req.continuation_id)
      /\ Readable(done.pre.disk, done.req.continuation_id) ) =>
        LET loaded == FileRecord(done.pre.disk, done.req.continuation_id).messages
            after == FileRecord(disk, done.req.continuation_id).messages
        IN  /\ Len(after) = Len(loaded) + 2
            /\ SubSeq(after, 1, Len(loaded)) = loaded
            /\ after[Len(after) - 1].role = "user"
            /\ after[Len(after)].role = "assistant"

\* both turns loaded the history before either saved, both saved, and the file
\* lacks the pair the first writer had persisted
C13_Witness ==
    /\ ChatEnded("success")
    /\ done.saved
    /\ Truthy(done.req.continuation_id)
    /\ \E other \in Handlers \ {done.req.h} :
          LET id == done.req.continuation_id
              mine == FileRecord(disk, id).messages
          IN  /\ last[other].id = id
              /\ id \in DOMAIN cache[other]
              /\ Len(cache[other][id].messages) = Len(mine)
              /\ cache[other][id].messages[Len(mine)].role = "assistant"
              /\ \A i \in 1..Len(mine) :
                    mine[i] # cache[other][id].messages[Len(mine)]

\* C14: the cache and the last-conversation pointer are one process-wide state:
\* a call served by the host finds in its store's cache every conversation an
\* earlier call of this process saved, and finds the pointer set once an
\* earlier call has saved.
C14_CacheAndPointerProcessWide ==
    \A t \in Turns :
        Awaiting(t) =>
            \A id \in DOMAIN loc[t].pre.disk :
                ( /\ Readable(loc[t].pre.disk, id)
                  /\ FileRecord(loc[t].pre.disk, id).updated > OldConversation.updated ) =>
                    /\ id \in DOMAIN loc[t].pre.cache
                    /\ loc[t].pre.last # NoLast

\* a step changes no file but the one of the turn that returns in it
OnlyOwnFileWritten ==
    \A id \in DOMAIN disk' :
        (id \notin DOMAIN disk \/ disk'[id] # disk[id]) =>
            /\ done'.op = "chat"
            /\ done'.outcome = "success"
            /\ done'.result.continuation_id = id

\* while the first call is suspended the host can start a second one, and
\* each of two suspended calls can be resumed
SuspendedTurnBlocksNoOther ==
    /\ ( /\ Awaiting(TurnOrder[1])
         /\ ~Awaiting(TurnOrder[2])
         /\ cache[HandlerOf(TurnOrder[2])] = EmptyDict
         /\ last[HandlerOf(TurnOrder[2])] = NoLast
         /\ FreshIds # {}
         /\ now <= MaxTime ) =>
            ENABLED CallTool(TurnOrder[2], "p1", <<"gpt-5">>, "T1", None)
    /\ \A t \in Turns :
          (Awaiting(t) /\ now <= MaxTime) => ENABLED ChatReturn(t, "r1", "none")

\* the history a successful turn persists: what it found stored under its id
\* followed by its own user and assistant message
OwnHistoryPersisted ==
    (ChatEnded("success") /\ done.saved) =>
        LET id == done.result.continuation_id
            prior == PriorStored(done.req, done.pre)
            after == FileRecord(disk, id).messages
        IN  /\ Len(after) = Len(prior) + 2
            /\ SubSeq(after, 1, Len(prior)) = JsonLoad(JsonDump([messages |-> prior])).messages
            /\ after[Len(after) - 1].role = "user"
            /\ after[Len(after) - 1].content = done.req.prompt \o get_request_wrapper
            /\ after[Len(after)].role = "assistant"
            /\ after[Len(after)].content = done.result.content[1]

\* C26: concurrent turns on different conversation ids do not interfere: a
\* turn suspended at its external call prevents no other turn from starting
\* or completing, a returning turn writes no file but its own, and the history
\* it persists is what it found stored under its id followed by its own pair,
\* as if it had run alone.
C26_ConcurrentTurnsIndependent ==
    /\ [](SuspendedTurnBlocksNoOther /\ OwnHistoryPersisted)
    /\ [][OnlyOwnFileWritten]_vars

\* a turn has completed and saved while a turn on another id is suspended
C26_Witness ==
    /\ ChatEnded("success")
    /\ done.saved
    /\ \E u \in Turns :
          /\ Awaiting(u)
          /\ loc[u].continuation_id # done.result.continuation_id
          /\ Truthy(loc[u].req.continuation_id)
          /\ done.result.continuation_id \notin DOMAIN loc[u].pre.disk
    /\ Len(FileRecord(disk, done.result.continuation_id).messages) = 2

-----------------------------------------------------------------------------
(* The store's operations called directly *)

\* message lists a caller hands to save_conversation: the first turns of one
\* conversation
SampleTurns ==
    << [role |-> "user", content |-> "p1" \o get_request_wrapper,
        metadata |-> [timestamp |-> 0, target_model |-> <<"openai", "gpt-5">>]],
       [role |-> "assistant", content |-> "r1",
        metadata |-> [timestamp |-> 0, model |-> <<"openai", "gpt-5">>,
                      model_used |-> <<"openai", "gpt-5">>]],
       [role |-> "user", content |-> "p2" \o get_request_wrapper,
        metadata |-> [timestamp |-> 0, target_model |-> <<"acme", "m1">>]],
       [role |-> "assistant", content |-> "r2",
        metadata |-> [timestamp |-> 0, model |-> <<"acme", "m1">>,
                      model_used |-> <<"acme", "m1">>]] >>

MessageLists == { SubSeq(SampleTurns, 1, n) : n \in {2, 4} }
\* the conversation the caller saves; load_conversation is called on any id
SavedIds == {"c1"}
ModelMetadatas == { EmptyDict, [models_used |-> << <<"acme", "m1">> >>] }

\* storage.save_conversation(conversation_id, messages, model_metadata, title)
\* called on the store of handler h
StoreSave(h, conversation_id, messages, model_metadata, title, fault) ==
    /\ \A t \in Turns : ~Awaiting(t)
    /\ now <= MaxSaveTime
    /\ now' = now + 1
    /\ LET saved == save_conversation(cache[h], last[h], conversation_id, messages,
                                      model_metadata, title, fault)
       IN  /\ disk' = saved.disk
           /\ cache' = [cache EXCEPT ![h] = saved.cache]
           /\ last' = [last EXCEPT ![h] = saved.last]
           /\ done' = [op |-> "save", h |-> h, at |-> now,
                       args |-> [conversation_id |-> conversation_id,
                                 messages |-> messages,
                                 model_metadata |-> model_metadata, title |-> title],
                       ret |-> saved.ok, pre |-> Snapshot(h),
                       post |-> [disk |-> saved.disk, cache |-> saved.cache,
                                 last |-> saved.last]]
    /\ UNCHANGED <<pc, loc>>

\* storage.load_conversation(conversation_id) called on the store of handler h
StoreLoad(h, conversation_id) ==
    /\ \A t \in Turns : ~Awaiting(t)
    /\ LET loaded == load_conversation(cache[h], conversation_id)
       IN  /\ cache' = [cache EXCEPT ![h] = loaded.cache]
           /\ done' = [op |-> "load", h |-> h, conversation_id |-> conversation_id,
                       found |-> loaded.found, data |-> loaded.data,
                       pre |-> Snapshot(h),
                       post |-> [Snapshot(h) EXCEPT !.cache = loaded.cache]]
    /\ UNCHANGED <<disk, last, now, pc, loc>>

\* a caller driving one ConversationStorage, or a new one on the same directory
StoreNext ==
    \/ \E conversation_id \in SavedIds, messages \in MessageLists,
          model_metadata \in ModelMetadatas, title \in Titles, fault \in Faults :
          StoreSave("h1", conversation_id, messages, model_metadata, title, fault)
    \/ \E conversation_id \in ConvIds : StoreLoad("h1", conversation_id)
    \/ NewHandler("h1")

StoreSpec == Init /\ [][StoreNext]_vars

-----------------------------------------------------------------------------
(* Listing a directory of conversations *)

MaxLimit == 3       \* list_recent_conversations is called with limit 0..MaxLimit

ListIds == {"c1", "c2", "c3"}
ListedTitles == {None, "", "T1"}     \* None: the file has no title key
Stamps == 1..Cardinality(ListIds)    \* the updated times the files carry

\* a conversation file an earlier run left: the model of c1 has an alias, the
\* model of c2 has none, c3 was saved without model_metadata
ListedConversation(id, updated, title) ==
    LET base == [id |-> id, created |-> 0, updated |-> updated,
                 messages |-> SubSeq(SampleTurns, 1, IF id = "c3" THEN 4 ELSE 2)]
        titled == IF title = None THEN base ELSE base @@ [title |-> title]
    IN  IF id = "c1" THEN titled @@ [model_metadata |->
                                        [models_used |-> << <<"openai", "gpt-5">> >>]]
        ELSE IF id = "c2" THEN titled @@ [model_metadata |->
                                             [models_used |-> << <<"acme", "m1">> >>]]
        ELSE titled

\* what the file of id can hold: a conversation, or a text that does not parse
ListedFiles(id) ==
    {Truncated} \cup { JsonDump(ListedConversation(id, updated, title)) :
                          updated \in Stamps, title \in ListedTitles }

\* the directories the listing runs on
ListDisks ==
    UNION { [ids -> UNION { ListedFiles(id) : id \in ids }] : ids \in SUBSET ListIds }

ListInit ==
    /\ disk \in ListDisks
    /\ \A id \in DOMAIN disk : disk[id] \in ListedFiles(id)
    \* isoformat() times of separate saves: no two files carry the same updated
    /\ \A id1, id2 \in DOMAIN disk :
          (id1 # id2 /\ Parsable(disk[id1]) /\ Parsable(disk[id2])) =>
              JsonLoad(disk[id1]).updated # JsonLoad(disk[id2]).updated
    /\ cache = [h \in Handlers |-> EmptyDict]
    /\ last = [h \in Handlers |-> NoLast]
    /\ now = 1
    /\ pc = [t \in Turns |-> "idle"]
    /\ loc = [t \in Turns |-> NoLocals]
    /\ done = NoCall

\* the orders st_mtime can put the files of the directory in
FilesByMtime ==
    { order \in [1..Cardinality(DOMAIN disk) -> DOMAIN disk] :
        \A i, j \in DOMAIN order : order[i] = order[j] => i = j }

\* storage.list_recent_conversations(limit) called on the store of handler h
ListRecent(h, limit, files_by_mtime) ==
    /\ cache' = [cache EXCEPT ![h] = CacheAfterListing(cache[h], limit, files_by_mtime)]
    /\ done' = [op |-> "list", h |-> h, limit |-> limit,
                files_by_mtime |-> files_by_mtime,
                ret |-> list_recent_conversations(limit, files_by_mtime),
                pre |-> Snapshot(h),
                post |-> [Snapshot(h) EXCEPT !.cache =
                             CacheAfterListing(cache[h], limit, files_by_mtime)]]
    /\ UNCHANGED <<disk, last, now, pc, loc>>

ListNext ==
    \E limit \in 0..MaxLimit, files_by_mtime \in FilesByMtime :
        ListRecent("h1", limit, files_by_mtime)

ListSpec == ListInit /\ [][ListNext]_vars

MaxBrowseLimit == 1      \* the limits the browsing caller lists with

\* a caller that saves, loads and lists on one store
BrowseNext ==
    \/ StoreNext
    \/ \E limit \in 0..MaxBrowseLimit, files_by_mtime \in FilesByMtime :
          ListRecent("h1", limit, files_by_mtime)

BrowseSpec == Init /\ [][BrowseNext]_vars

-----------------------------------------------------------------------------
(* Properties of the store *)

SaveSucceeded == done.op = "save" /\ done.ret

\* C9 as claimed: a successful save onto an existing conversation never changes
\* its title or created, whatever title argument is passed.
C9_AppendKeepsTitleAndCreated ==
    (SaveSucceeded /\ Readable(done.pre.disk, done.args.conversation_id)) =>
        LET id == done.args.conversation_id
        IN  /\ TitleOf(done.post.disk, id) = TitleOf(done.pre.disk, id)
            /\ FileRecord(done.post.disk, id).created
                  = FileRecord(done.pre.disk, id).created

\* C9 amended: a successful save onto an existing conversation never changes
\* created; it keeps the title when the title argument is None or empty, and
\* replaces the title by a non-empty title argument.
C9_AppendKeepsCreatedAndUnarguedTitle ==
    (SaveSucceeded /\ Readable(done.pre.disk, done.args.conversation_id)) =>
        LET id == done.args.conversation_id
        IN  /\ FileRecord(done.post.disk, id).created
                  = FileRecord(done.pre.disk, id).created
            /\ IF Truthy(done.args.title)
               THEN TitleOf(done.post.disk, id) = {<<"title", done.args.title>>}
               ELSE TitleOf(done.post.disk, id) = TitleOf(done.pre.disk, id)

C9_Witness ==
    /\ SaveSucceeded
    /\ Readable(done.pre.disk, done.args.conversation_id)
    /\ ~Truthy(done.args.title)
    /\ TitleOf(disk, done.args.conversation_id) = {<<"title", "T1">>}
    /\ Len(FileRecord(disk, done.args.conversation_id).messages) = 4
    /\ FileRecord(disk, done.args.conversation_id).created + 2 <= done.at

\* the fields of a conversation dict the round trip is about
RoundTripFields(data) ==
    [id |-> Get(data, "id"), created |-> Get(data, "created"),
     messages |-> Get(data, "messages"),
     title |-> TitleField(data)]

\* C10: right after a successful save, load_conversation of the same id returns
\* the id and message list that were saved, the title and the created time the
\* save settled on, both from the saving store's cache and from disk through a
\* store with an empty cache.
C10_SaveLoadRoundTrip ==
    SaveSucceeded =>
        LET id == done.args.conversation_id
            warm == load_conversation(cache[done.h], id)
            cold == load_conversation(EmptyDict, id)
            expected ==
                [id |-> id,
                 created |-> IF Readable(done.pre.disk, id)
                             THEN FileRecord(done.pre.disk, id).created
                             ELSE done.at,
                 messages |-> done.args.messages,
                 title |-> IF Truthy(done.args.title)
                           THEN {<<"title", done.args.title>>}
                           ELSE IF Readable(done.pre.disk, id)
                                THEN TitleOf(done.pre.disk, id)
                                ELSE {}]
        IN  /\ warm.found /\ RoundTripFields(warm.data) = expected
            /\ cold.found /\ RoundTripFields(cold.data) = expected

C10_Witness ==
    /\ SaveSucceeded
    /\ Len(done.args.messages) = 4
    /\ done.args.title = "T1"
    /\ Readable(done.pre.disk, done.args.conversation_id)
    /\ TitleOf(done.pre.disk, done.args.conversation_id) = {<<"title", "T0">>}
    /\ done.args.conversation_id \in DOMAIN done.pre.cache

\* C16: load_conversation of an id that is not cached and has no file returns
\* None without raising and adds no cache entry; when the file exists but
\* cannot be read or parsed the returned value is the same, and again no cache
\* entry is added.
C16_LoadMissReturnsNone ==
    ( /\ done.op = "load"
      /\ done.conversation_id \notin DOMAIN done.pre.cache
      /\ ~Readable(done.pre.disk, done.conversation_id) ) =>
        /\ ~done.found
        /\ done.data = EmptyDict
        /\ done.post = done.pre
        /\ cache[done.h] = done.pre.cache

C16_Witness ==
    /\ done.op = "load"
    /\ done.conversation_id \in DOMAIN disk
    /\ ~Parsable(disk[done.conversation_id])
    /\ done.conversation_id \notin DOMAIN done.pre.cache
    /\ ~done.found
    /\ DOMAIN cache[done.h] = {}

\* the model of the latest assistant message of a list, NoModel when none
LatestAssistantModel(messages) ==
    LET hits == { i \in 1..Len(messages) : Get(messages[i], "role") = "assistant" }
    IN  IF hits = {} THEN NoModel
        ELSE Get(Get(messages[CHOOSE i \in hits : \A j \in hits : j <= i], "metadata"),
                 "model")

\* the pointer is (None, None) or names a conversation a save has written
PointerNamesSavedFile ==
    \A h \in Handlers : last[h] = NoLast \/ last[h].id \in DOMAIN disk

C23_LoadIsCacheFirst ==
    /\ done.op \in {"load", "save"} =>
          DOMAIN done.pre.cache \subseteq DOMAIN done.post.cache
    /\ (done.op = "load" /\ done.conversation_id \in DOMAIN done.pre.cache) =>
          /\ done.found
          /\ done.data = done.pre.cache[done.conversation_id]
          /\ done.post.cache = done.pre.cache
    /\ (done.op = "load" /\ done.conversation_id \notin DOMAIN done.pre.cache
                        /\ Readable(done.pre.disk, done.conversation_id)) =>
          /\ done.found
          /\ done.data = FileRecord(done.pre.disk, done.conversation_id)
          /\ done.post.cache
                = (done.conversation_id :> done.data) @@ done.pre.cache

\* a cached id is loaded while its file is unparsable
C23_Witness ==
    /\ done.op = "load"
    /\ done.conversation_id \in DOMAIN done.pre.cache
    /\ done.conversation_id \in DOMAIN disk
    /\ ~Readable(disk, done.conversation_id)
    /\ done.found
    /\ Len(done.data.messages) = 2

\* C24: save never raises: a failed save returns False and leaves the cache
\* and the last-conversation pointer exactly as they were; a successful save
\* returns True, the cache entry under the id is the record written to the
\* file, and the pointer names the id.
C24_SaveFailureKeepsCacheAndPointer ==
    /\ (done.op = "save" /\ ~done.ret) =>
          /\ done.post.cache = done.pre.cache
          /\ done.post.last = done.pre.last
    /\ SaveSucceeded =>
          /\ done.args.conversation_id \in DOMAIN done.post.cache
          /\ Readable(done.post.disk, done.args.conversation_id)
          /\ done.post.cache[done.args.conversation_id]
                = FileRecord(done.post.disk, done.args.conversation_id)
          /\ done.post.last.id = done.args.conversation_id

\* a save fails on a store that holds a cache entry and a pointer
C24_Witness ==
    /\ done.op = "save"
    /\ ~done.ret
    /\ done.args.conversation_id \in DOMAIN cache[done.h]
    /\ last[done.h].id = done.args.conversation_id
    /\ ~Readable(disk, done.args.conversation_id)

\* C25: created is set once and updated is refreshed on every save, with a
\* clock that does not run backwards: a successful save of an existing
\* conversation keeps created, stamps updated with the time of the save and
\* never decreases it; a successful save to a file that does not exist sets
\* created to the time of that save; every record has created <= updated.
C25_CreatedOnceUpdatedRefreshed ==
    /\ SaveSucceeded =>
          FileRecord(done.post.disk, done.args.conversation_id).updated = done.at
    /\ (SaveSucceeded /\ done.args.conversation_id \notin DOMAIN done.pre.disk) =>
          FileRecord(done.post.disk, done.args.conversation_id).created = done.at
    /\ (SaveSucceeded /\ Readable(done.pre.disk, done.args.conversation_id)) =>
          LET old == FileRecord(done.pre.disk, done.args.conversation_id)
              new == FileRecord(done.post.disk, done.args.conversation_id)
          IN  /\ new.created = old.created
              /\ new.updated >= old.updated
    /\ \A id \in DOMAIN disk :
          Readable(disk, id) =>
              FileRecord(disk, id).created <= FileRecord(disk, id).updated

\* a conversation created by a save at one time is saved again later
C25_Witness ==
    /\ SaveSucceeded
    /\ Readable(done.pre.disk, done.args.conversation_id)
    /\ FileRecord(disk, done.args.conversation_id).created >= 1
    /\ FileRecord(disk, done.args.conversation_id).updated
          > FileRecord(disk, done.args.conversation_id).created
    /\ FileRecord(done.pre.disk, done.args.conversation_id).updated
          < FileRecord(disk, done.args.conversation_id).updated

\* a conversation file that parses but has no updated field
UndatedConversation(id) ==
    LET data == ListedConversation(id, 1, "T1")
    IN  [k \in DOMAIN data \ {"updated"} |-> data[k]]

\* what the file of id can hold in a directory with defective records
DefectiveFiles(id) ==
    {Truncated, JsonDump(UndatedConversation(id))}
    \cup { JsonDump(ListedConversation(id, updated, "T1")) : updated \in Stamps }

Dated(text) == Parsable(text) /\ "updated" \in DOMAIN JsonLoad(text)

\* a directory in which at least one record has no updated field
DefectiveInit ==
    /\ disk \in UNION { [ids -> UNION { DefectiveFiles(id) : id \in ids }] :
                            ids \in SUBSET ListIds }
    /\ \A id \in DOMAIN disk : disk[id] \in DefectiveFiles(id)
    /\ \E id \in DOMAIN disk : Parsable(disk[id]) /\ ~Dated(disk[id])
    /\ \A id1, id2 \in DOMAIN disk :
          (id1 # id2 /\ Dated(disk[id1]) /\ Dated(disk[id2])) =>
              JsonLoad(disk[id1]).updated # JsonLoad(disk[id2]).updated
    /\ cache = [h \in Handlers |-> EmptyDict]
    /\ last = [h \in Handlers |-> NoLast]
    /\ now = 1
    /\ pc = [t \in Turns |-> "idle"]
    /\ loc = [t \in Turns |-> NoLocals]
    /\ done = NoCall

DefectiveListSpec == DefectiveInit /\ [][ListNext]_vars

-----------------------------------------------------------------------------
(* Properties of the listing *)

\* the ids of the summaries a listing returned, in order
RetIds(ret) == [i \in 1..Len(ret) |-> ret[i].id]

Min(a, b) == IF a < b THEN a ELSE b

\* C12: given persisted conversations with distinct updated times,
\* list_recent(k) returns exactly the k conversations with the greatest updated,
\* in descending order of updated, whatever order the files' mtimes are in.
C12_ListReturnsMostRecentlyUpdated ==
    (done.op = "list" /\ \A id \in DOMAIN disk : Parsable(disk[id])) =>
        LET ids == RetIds(done.ret)
            returned == {ids[i] : i \in 1..Len(ids)}
            Updated(id) == FileRecord(disk, id).updated
        IN  /\ Len(ids) = Min(done.limit, Cardinality(DOMAIN disk))
            /\ Cardinality(returned) = Len(ids)
            /\ returned \subseteq DOMAIN disk
            /\ \A i, j \in 1..Len(ids) : i < j => Updated(ids[i]) > Updated(ids[j])
            /\ \A id \in returned, other \in DOMAIN disk \ returned :
                  Updated(id) > Updated(other)

\* C18: list_recent reports a conversation without a title under a placeholder
\* label and skips a file that does not parse: the listing holds one summary for
\* each candidate (the first limit files by mtime) that parses, and no other.
C18_ListSkipsUnparsableLabelsUntitled ==
    done.op = "list" =>
        LET ids == RetIds(done.ret)
            candidates == RecentFiles(done.files_by_mtime, done.limit)
        IN  /\ {ids[i] : i \in 1..Len(ids)}
                  = { candidates[i] : i \in { j \in 1..Len(candidates) :
                                                 Parsable(disk[candidates[j]]) } }
            /\ \A i, j \in 1..Len(ids) : ids[i] = ids[j] => i = j
            /\ \A i \in 1..Len(ids) :
                  done.ret[i].title =
                      IF Truthy(Get(FileRecord(disk, ids[i]), "title"))
                      THEN FileRecord(disk, ids[i]).title
                      ELSE "[Untitled conversation]"

C18_Witness ==
    /\ done.op = "list"
    /\ Len(done.ret) = 2
    /\ done.limit = 3
    /\ \E id \in DOMAIN disk : ~Parsable(disk[id])
    /\ \E i \in 1..Len(done.ret) :
          /\ done.ret[i].title = "[Untitled conversation]"
          /\ "title" \notin DOMAIN FileRecord(disk, done.ret[i].id)
    /\ \E i \in 1..Len(done.ret) : done.ret[i].title = "T1"

\* C30: list_recent never raises, and one defective record does not empty the
\* listing: when a candidate file parses as a record without an updated field,
\* every other candidate that parses is still returned.
C30_DefectiveRecordKeepsOthers ==
    done.op = "list" =>
        LET ids == RetIds(done.ret)
            candidates == RecentFiles(done.files_by_mtime, done.limit)
        IN  \A i \in 1..Len(candidates) :
                Dated(disk[candidates[i]]) =>
                    \E j \in 1..Len(ids) : ids[j] = candidates[i]

\* what load_conversation returns for id on a store in state s
LoadResult(s, id) ==
    IF id \in DOMAIN s.cache THEN <<TRUE, s.cache[id]>>
    ELSE IF Readable(s.disk, id) THEN <<TRUE, FileRecord(s.disk, id)>>
    ELSE <<FALSE, EmptyDict>>

\* C31: list_recent is read-only: it leaves every conversation file, the
\* store's cache and the last-conversation pointer as they were, so a load
\* after it returns what it would have returned before it.
C31_ListIsReadOnly ==
    done.op = "list" =>
        /\ done.post = done.pre
        /\ disk = done.pre.disk
        /\ cache[done.h] = done.pre.cache
        /\ last[done.h] = done.pre.last
        /\ \A id \in ConvIds :
              LET loaded == load_conversation(cache[done.h], id)
              IN  <<loaded.found, loaded.data>> = LoadResult(done.pre, id)

\* a listing has returned a conversation of two turns on the store that
\* saved it, which holds its cache entry and points at it
C31_Witness ==
    /\ done.op = "list"
    /\ Len(done.ret) = 1
    /\ done.ret[1].id \in DOMAIN cache[done.h]
    /\ last[done.h].id = done.ret[1].id
    /\ Len(cache[done.h][done.ret[1].id].messages) = 4

====
